---- MODULE Spec2Model ----
(***************************************************************************)
(* A model of QwenCode Weaver: the agent control loop around runAiAgent,   *)
(* the application context (repositories and task log), the debugger page  *)
(* (handleSend / handleApplyChange) and the line diff of CodeChangeCard.   *)
(***************************************************************************)
EXTENDS Integers, Sequences, FiniteSets, TLC

VARIABLES
    repositories,   \* AppContext: Repository[] (id, files: CodeFile[])
    tasks,          \* AppContext: AITask[], most recent first
    ollamaUrl,      \* settings.ollamaUrl ("" when unset)
    ollamaModel,    \* settings.ollamaModel ("" when unset)
    variant,        \* which runAiAgent of the repository is deployed
    aPc,            \* agent loop: "idle" | "awaiting" | "editing" | "finished" | "error"
    aMessages,      \* agent loop: the transcript of the running request
    aTurn,          \* agent loop: turnCount
    aRequests,      \* agent loop: model requests issued in this request
    aSurfaced,      \* agent loop: the message shown to the user when the loop ended
    aLastNet,       \* agent loop: what the model endpoint answered in the last turn
    aLastResult,    \* agent loop: how runAiAgent ended in the last turn (return, throw)
    aAllReads,      \* agent loop: every answer so far was a readFile of a known path
    aSessions,      \* number of user requests started
    aRepoId,        \* agent loop: the repository the request works on
    aEdit,          \* agent loop: the pending naturalLanguageWriteFile (path, prompt)
    pSelectedRepoId,    \* debugger page: selectedRepoId
    pMessages,          \* debugger page: messages
    pInput,             \* debugger page: input
    pIsLoading,         \* debugger page: isLoading
    pSelectedFilePaths, \* debugger page: selectedFilePaths
    pRun,               \* debugger page: the handleSend call in flight (its closure)
    pSends,             \* debugger page: handleSend calls made
    pLastReply,         \* debugger page: the text analyzeCode last resolved with
    pToast,             \* debugger page: the "Change Applied!" toast last shown
    nPc,                \* network calls: "idle", "pending" (a probe awaits its fetch), "done"
    nCall,              \* network calls: the call last made and what the upstream answered
    nResult,            \* network calls: what the caller got
    nTimer,             \* network calls: the probe's timeout is armed
    nCalls,             \* network calls: how many calls were made
    tMounted,           \* training monitor: the mount effect has run
    tStatus,            \* training server: the status of each job ("none": no such job)
    tJobsList,          \* training monitor: jobsList, the status of each job when last fetched
    tActiveJob,         \* training monitor: activeJob (job_id, status)
    tPollingIntervalId, \* training monitor: pollingIntervalId (0 is null)
    tTimers,            \* the intervals set and not cleared
    tNextId,            \* the id the next setInterval returns
    dOriginal,      \* diff: the original text
    dModified,      \* diff: the modified text
    dResult,        \* diff: what diffLines returned
    dPc             \* diff: "input" | "done"

appVars == <<repositories, tasks>>
cfgVars == <<ollamaUrl, ollamaModel, variant>>
agentVars == <<aPc, aMessages, aTurn, aRequests, aSurfaced, aLastNet, aLastResult,
               aAllReads, aSessions, aRepoId, aEdit>>
pageVars == <<pSelectedRepoId, pMessages, pInput, pIsLoading, pSelectedFilePaths,
              pRun, pSends, pLastReply, pToast>>
diffVars == <<dOriginal, dModified, dResult, dPc>>
netVars == <<nPc, nCall, nResult, nTimer, nCalls>>
trainVars == <<tMounted, tStatus, tJobsList, tActiveJob, tPollingIntervalId, tTimers, tNextId>>
vars == <<appVars, cfgVars, agentVars, pageVars, diffVars, netVars, trainVars>>

-----------------------------------------------------------------------------
(* Bounds of the model.                                                    *)

\* maxTurns of the agent loop (the spec's example value is 10).
MaxTurns == 3
\* How many user requests one behaviour starts.
MaxSessions == 2
\* How many times handleSend of the debugger page is called.
MaxSends == 2
\* The longest text given to diffLines, in characters.
MaxStrLen == 3
\* How many tasks are added to the log a behaviour starts with.
MaxAdds == 3
\* How many network calls one behaviour makes.
MaxCalls == 2
\* How many times runAiAgent is called on one growing history.
MaxReplays == 3
\* How many intervals the training monitor sets.
MaxTimers == 3

-----------------------------------------------------------------------------
(* Paths: strings as sequences of characters, so that startsWith('./') and *)
(* substring(2) are computed, not assumed.                                 *)

PathA == <<"a">>
PathB == <<"b">>
PathDotA == <<".", "/", "a">>
PathZ == <<"z">>
\* a JSON object without a "path" member
NoPath == <<"undefined">>

ActionPaths == {PathA, PathDotA, PathZ}

StartsWithDotSlash(p) == Len(p) >= 2 /\ p[1] = "." /\ p[2] = "/"

NormalizePathAlwaysStrips(p) == SubSeq(p, 3, Len(p))

NormalizePath(p) == IF StartsWithDotSlash(p) THEN SubSeq(p, 3, Len(p)) ELSE p

-----------------------------------------------------------------------------
(* Messages, JSON objects and text.                                        *)
(* A text is a sequence of tokens: prose, the fence opener "```json\n",    *)
(* the fence closer "\n```", or the JSON text of one object.               *)

Msg(kind, path, quote) == [kind |-> kind, path |-> path, quote |-> quote]
NoMsg == Msg("undefined", <<>>, <<>>)
ModelMsgs == {Msg("All done.", <<>>, <<>>), Msg("", <<>>, <<>>)}

Obj(action, path, content, message, prompt) ==
    [action |-> action, path |-> path, content |-> content,
     message |-> message, prompt |-> prompt]
EmptyObj == Obj("undefined", NoPath, "undefined", NoMsg, "undefined")

ReadFileObj(p) == Obj("readFile", p, "undefined", NoMsg, "undefined")
WriteFileObj(p, c) == Obj("writeFile", p, c, NoMsg, "undefined")
EditObj(p, pr) == Obj("naturalLanguageWriteFile", p, "undefined", NoMsg, pr)
FinishObj(m) == Obj("finish", NoPath, "undefined", m, "undefined")
BogusObj == Obj("deleteFile", PathA, "undefined", NoMsg, "undefined")

Prose == [k |-> "prose", v |-> EmptyObj]
FenceOpen == [k |-> "open", v |-> EmptyObj]
FenceClose == [k |-> "close", v |-> EmptyObj]
J(v) == [k |-> "json", v |-> v]

\* JSON.stringify of an object
Stringify(v) == <<J(v)>>

Failed == [ok |-> FALSE, v |-> EmptyObj]
Parsed(v) == [ok |-> TRUE, v |-> v]

\* JSON.parse: succeeds exactly on the text of one JSON value
JsonParse(text) ==
    IF Len(text) = 1 /\ text[1].k = "json" THEN Parsed(text[1].v) ELSE Failed

\* the least index >= from holding a token of kind k, or 0
RECURSIVE IndexOfKind(_, _, _)
IndexOfKind(text, k, from) ==
    IF from > Len(text) THEN 0
    ELSE IF text[from].k = k THEN from
    ELSE IndexOfKind(text, k, from + 1)

\* the greatest index <= from holding a token of kind k, or 0
RECURSIVE LastIndexOfKind(_, _, _)
LastIndexOfKind(text, k, from) ==
    IF from < 1 THEN 0
    ELSE IF text[from].k = k THEN from
    ELSE LastIndexOfKind(text, k, from - 1)

\* content.match(/```json\n([\s\S]*?)\n```/): the captured group, when it matches
FenceMatch(text) ==
    LET i == IndexOfKind(text, "open", 1)
        j == IF i = 0 THEN 0 ELSE IndexOfKind(text, "close", i + 1)
    IN  IF i = 0 \/ j = 0 THEN [matched |-> FALSE, group |-> <<>>]
        ELSE [matched |-> TRUE, group |-> SubSeq(text, i + 1, j - 1)]

\* content.match(/\{[\s\S]*\}/): from the first "{" to the last "}"
BraceMatch(text) ==
    LET i == IndexOfKind(text, "json", 1)
        j == LastIndexOfKind(text, "json", Len(text))
    IN  IF i = 0 THEN [matched |-> FALSE, group |-> <<>>]
        ELSE [matched |-> TRUE, group |-> SubSeq(text, i, j)]

ParseWholeOnly(text) == JsonParse(text)

\* the try block shared by the fence-parsing variants:
\*   jsonMatch && jsonMatch[1] ? JSON.parse(jsonMatch[1]) : JSON.parse(content)
ParseFencedOrWhole(text) ==
    LET m == FenceMatch(text)
    IN  IF m.matched /\ m.group # <<>> THEN JsonParse(m.group) ELSE JsonParse(text)

\* JavaScript truthiness of the "action" member
Truthy(s) == s # "undefined" /\ s # ""

-----------------------------------------------------------------------------
(* The application context.                                                *)

\* the task log keeps the 100 most recent tasks
TaskCap == 100

File(path, content) == [path |-> path, content |-> content]
Repo(id, files) == [id |-> id, files |-> files]

InitialRepositories ==
    <<Repo("r1", <<File(PathA, "c0"), File(PathB, "c0")>>),
      Repo("r2", <<File(PathA, "c0")>>)>>

\* repositories.find(repo => repo.id === id), as an index (0 when absent)
RECURSIVE RepoIndex(_, _, _)
RepoIndex(repos, id, from) ==
    IF from > Len(repos) THEN 0
    ELSE IF repos[from].id = id THEN from
    ELSE RepoIndex(repos, id, from + 1)

\* files.find(f => f.path === path), as an index (0 when absent)
RECURSIVE FileIndex(_, _, _)
FileIndex(files, path, from) ==
    IF from > Len(files) THEN 0
    ELSE IF files[from].path = path THEN from
    ELSE FileIndex(files, path, from + 1)

UpdateFileContentNoop(repos, repoId, filePath, newContent) == repos

UpdateFileContentEveryRepo(repos, repoId, filePath, newContent) ==
    [r \in 1..Len(repos) |->
        [repos[r] EXCEPT !.files =
            [f \in 1..Len(repos[r].files) |->
                IF repos[r].files[f].path = filePath
                THEN [repos[r].files[f] EXCEPT !.content = newContent]
                ELSE repos[r].files[f]]]]

\* updateFileContent: maps over the repositories, and over the files of the one
\* whose id matches, replacing the content of every file with that path
UpdateFileContent(repos, repoId, filePath, newContent) ==
    [r \in 1..Len(repos) |->
        IF repos[r].id = repoId
        THEN [repos[r] EXCEPT !.files =
                [f \in 1..Len(repos[r].files) |->
                    IF repos[r].files[f].path = filePath
                    THEN [repos[r].files[f] EXCEPT !.content = newContent]
                    ELSE repos[r].files[f]]]
        ELSE repos[r]]

\* id: Date.now().toString(), as a number
Task(id, repositoryId, prompt, originalCode, modifiedCode) ==
    [id |-> id, repositoryId |-> repositoryId, prompt |-> prompt, status |-> "completed",
     originalCode |-> originalCode, modifiedCode |-> modifiedCode]

\* Date.now() when a task is made: later than the time of every task logged
Now(log) == IF log = <<>> THEN 1 ELSE log[1].id + 1

Min(a, b) == IF a < b THEN a ELSE b

AddTaskAppends(log, task) ==
    SubSeq(Append(log, task), 1, Min(Len(log) + 1, TaskCap))

\* addTask: [task, ...prev].slice(0, 100)
AddTask(log, task) ==
    LET all == <<task>> \o log IN SubSeq(all, 1, Min(Len(all), TaskCap))

-----------------------------------------------------------------------------
(* The model endpoint as runAiAgent sees it through fetch('/api/ollama').  *)

Net(t, raw) == [t |-> t, raw |-> raw]

Contents == {"c1"}

ActionObjs ==
    {ReadFileObj(p) : p \in ActionPaths}
    \cup {WriteFileObj(p, c) : p \in ActionPaths, c \in Contents}
    \cup {EditObj(PathA, "rename x"), EditObj(PathZ, "rename x")}
    \cup {FinishObj(m) : m \in ModelMsgs}
    \cup {BogusObj, EmptyObj}

\* the objects that are also answered inside a fence or after prose
WrappedObjs == {ReadFileObj(PathDotA), FinishObj(Msg("All done.", <<>>, <<>>))}

\* the shapes of text a model answers with
RawResponses ==
    {<<J(v)>> : v \in ActionObjs}
    \cup {<<FenceOpen, J(v), FenceClose>> : v \in WrappedObjs}
    \cup {<<Prose, FenceOpen, J(v), FenceClose>> : v \in WrappedObjs}
    \cup {<<Prose, J(v)>> : v \in WrappedObjs}
    \cup {<<Prose>>, <<>>, <<FenceOpen, Prose, FenceClose>>}

NetOutcomes ==
    {Net("ok", raw) : raw \in RawResponses}
    \cup {Net("non2xx", <<>>), Net("non2xxText", <<>>), Net("netfail", <<>>)}

-----------------------------------------------------------------------------
(* runAiAgent, in the three forms the repository holds.                    *)

Variants == {"part_001", "ai-debugger-chat", "use-settings"}

Throw(kind) ==
    [t |-> "throw", err |-> Msg(kind, <<>>, <<>>), response |-> <<>>,
     action |-> EmptyObj, requested |-> FALSE]
\* { response: JSON.stringify(action) }
Return(action) ==
    [t |-> "return", err |-> NoMsg, response |-> Stringify(action),
     action |-> EmptyObj, requested |-> FALSE]
\* the action object itself
ReturnObj(action) ==
    [t |-> "return", err |-> NoMsg, response |-> <<>>,
     action |-> action, requested |-> FALSE]
Requested(res) == [res EXCEPT !.requested = TRUE]

\* messages.findLast(msg => msg.role === 'ai'), as an index (0 when absent)
RECURSIVE LastAiIndex(_, _)
LastAiIndex(messages, from) ==
    IF from < 1 THEN 0
    ELSE IF messages[from].role = "ai" THEN from
    ELSE LastAiIndex(messages, from - 1)

\* fileList.find(f => f === path)
InFileList(fileList, path) == \E i \in 1..Len(fileList) : fileList[i] = path

ConfigError(url, model) ==
    IF url = "" THEN Throw("Ollama URL is not configured")
    ELSE Throw("Ollama Model is not configured")

FetchErrorSwallowed(net) ==
    [t |-> "return", err |-> NoMsg, response |-> Stringify(FinishObj(NoMsg)),
     action |-> FinishObj(NoMsg), requested |-> FALSE]

\* the failures of the request itself: fetch rejects, response.json() throws on
\* a body that is not JSON, or the status is not 2xx
FetchError(net) ==
    IF net.t = "netfail" THEN Throw("fetch failed")
    ELSE IF net.t = "non2xxText" THEN Throw("Unexpected token in JSON")
    ELSE Throw("Ollama server responded with status")

DispatchPassesUnknown(fileList, act) == Return(act)

DispatchReadFinishes(fileList, act) ==
    IF act.action = "readFile" THEN Return(FinishObj(NoMsg))
    ELSE Return(act)

\* part_001, lines 148-198: the dispatch on nextAgentAction
Dispatch(fileList, act) ==
    IF act.action = "readFile" THEN
        IF act.path = NoPath THEN Throw("TypeError")
        ELSE IF ~InFileList(fileList, NormalizePath(act.path))
        THEN Return(FinishObj(Msg("Error: File not found in the repository.",
                                  NormalizePath(act.path), <<>>)))
        ELSE Return(act)
    ELSE IF act.action = "writeFile" THEN Return(act)
    ELSE IF act.action = "naturalLanguageWriteFile" THEN
        IF act.path = NoPath THEN Throw("TypeError")
        ELSE IF ~InFileList(fileList, NormalizePath(act.path))
        THEN Return(FinishObj(Msg("Error: Cannot perform naturalLanguageWriteFile: File not found.",
                                  NormalizePath(act.path), <<>>)))
        ELSE Return(act)
    ELSE IF act.action = "finish" THEN Return(act)
    ELSE Return(FinishObj(Msg("The AI returned an unknown action.", <<>>, <<>>)))

RunAiAgentAlwaysAsks(fileList, messages, url, model, net) ==
    IF url = "" \/ model = "" THEN ConfigError(url, model)
    ELSE IF net.t # "ok" THEN Requested(FetchError(net))
    ELSE
        LET raw == IF net.raw = <<>> THEN <<J(EmptyObj)>> ELSE net.raw
            next == ParseFencedOrWhole(raw)
        IN  IF ~next.ok
            THEN Requested(Throw("The AI returned an invalid action format."))
            ELSE Requested(Dispatch(fileList, next.v))

\* part_001: replays the action of the last 'ai' message, else asks the model
RunAiAgentPart001(fileList, messages, url, model, net) ==
    IF url = "" \/ model = "" THEN ConfigError(url, model)
    ELSE
        LET last == LastAiIndex(messages, Len(messages))
            potential == IF last = 0 THEN Failed
                         ELSE ParseFencedOrWhole(messages[last].content)
        IN  IF potential.ok /\ Truthy(potential.v.action)
            THEN Dispatch(fileList, potential.v)
            ELSE IF net.t # "ok" THEN Requested(FetchError(net))
            ELSE
                \* data.response || '{}'
                LET raw == IF net.raw = <<>> THEN <<J(EmptyObj)>> ELSE net.raw
                    next == ParseFencedOrWhole(raw)
                IN  IF ~next.ok
                    THEN Requested(Throw("The AI returned an invalid action format."))
                    ELSE Requested(Dispatch(fileList, next.v))

\* ai-debugger-chat.ts: asks the model and passes the parsed action back
RunAiAgentChat(fileList, messages, url, model, net) ==
    IF url = "" \/ model = "" THEN ConfigError(url, model)
    ELSE IF net.t # "ok" THEN Requested(FetchError(net))
    ELSE
        LET raw == IF net.raw = <<>> THEN <<J(EmptyObj)>> ELSE net.raw
            next == ParseFencedOrWhole(raw)
        IN  IF ~next.ok
            THEN Requested(Throw("The AI returned an invalid action format."))
            ELSE Requested(Return(next.v))

\* use-settings.ts: takes the outermost {...} of the answer; what does not parse
\* to an object with a string action comes back as a finish quoting the answer
RunAiAgentSettings(fileList, messages, url, model, net) ==
    IF url = "" \/ model = "" THEN ConfigError(url, model)
    ELSE IF net.t # "ok" THEN Requested(FetchError(net))
    ELSE
        LET m == BraceMatch(net.raw)
            next == IF m.matched THEN JsonParse(m.group) ELSE Failed
        IN  IF next.ok /\ next.v.action # "undefined"
            THEN Requested(ReturnObj(next.v))
            ELSE Requested(ReturnObj(FinishObj(
                    Msg("I encountered an internal error and could not understand the model's response.",
                        <<>>, net.raw))))

RunAiAgent(v, fileList, messages, url, model, net) ==
    IF v = "part_001" THEN RunAiAgentPart001(fileList, messages, url, model, net)
    ELSE IF v = "ai-debugger-chat" THEN RunAiAgentChat(fileList, messages, url, model, net)
    ELSE RunAiAgentSettings(fileList, messages, url, model, net)

-----------------------------------------------------------------------------
(* The agent control loop: one user request, at most MaxTurns turns.       *)

RepoIds == {"r1", "r2"}

ChatMsg(role, kind, path, code, msg, content) ==
    [role |-> role, kind |-> kind, path |-> path, code |-> code,
     msg |-> msg, content |-> content]
UserMessage == ChatMsg("user", "user", <<>>, "", NoMsg, <<Prose>>)
\* a system-role observation
Observation(kind, path, code) == ChatMsg("system", kind, path, code, NoMsg, <<Prose>>)

TooManySteps == Msg("The agent took too many steps.", <<>>, <<>>)
UnknownAction == Msg("unknown action", <<>>, <<>>)
NoNet == Net("none", <<>>)
NoResult == "none"
NoEdit == [path |-> <<>>, prompt |-> ""]

\* the files of a repository, or none when the repository is not there
FilesOf(repos, repoId) ==
    IF RepoIndex(repos, repoId, 1) = 0 THEN <<>>
    ELSE repos[RepoIndex(repos, repoId, 1)].files

\* selectedRepo.files.map(f => f.path)
FileList(repos, repoId) ==
    [i \in 1..Len(FilesOf(repos, repoId)) |-> FilesOf(repos, repoId)[i].path]

\* file store: readFile(path) -> content | NotFound
ReadFile(repos, repoId, path) ==
    LET files == FilesOf(repos, repoId)
        f == FileIndex(files, path, 1)
    IN  IF f = 0 THEN [found |-> FALSE, content |-> ""]
        ELSE [found |-> TRUE, content |-> files[f].content]

\* a write and what follows it: the file store, the observation, the task record
ExecuteWrite(repos, log, repoId, path, content, prompt) ==
    LET before == ReadFile(repos, repoId, path)
    IN  [repos |-> UpdateFileContent(repos, repoId, path, content),
         obs |-> IF before.found THEN Observation("written", path, content)
                 ELSE Observation("notFound", path, ""),
         log |-> IF before.found
                 THEN AddTask(log, Task(Now(log), repoId, prompt, before.content, content))
                 ELSE log]

\* what JSON.parse gives the loop for runAiAgent's return value
ReturnedAction(res) ==
    IF res.response # <<>> THEN JsonParse(res.response).v ELSE res.action

Outcome(pc, messages, repos, log, surfaced, edit) ==
    [pc |-> pc, messages |-> messages, repos |-> repos, log |-> log,
     surfaced |-> surfaced, edit |-> edit]

\* one turn of the loop on runAiAgent's result
ExecuteTurn(res, messages, repos, log, repoId) ==
    LET act == ReturnedAction(res)
        path == NormalizePath(act.path)
    IN  IF res.t = "throw"
        THEN Outcome("error", messages, repos, log, res.err, NoEdit)
        ELSE IF act.action = "readFile" THEN
            LET got == ReadFile(repos, repoId, path)
            IN  Outcome("awaiting",
                        Append(messages,
                               IF got.found THEN Observation("fileContent", path, got.content)
                               ELSE Observation("notFound", path, "")),
                        repos, log, NoMsg, NoEdit)
        ELSE IF act.action = "writeFile" THEN
            LET w == ExecuteWrite(repos, log, repoId, path, act.content, "writeFile")
            IN  Outcome("awaiting", Append(messages, w.obs), w.repos, w.log, NoMsg, NoEdit)
        ELSE IF act.action = "naturalLanguageWriteFile" THEN
            IF ReadFile(repos, repoId, path).found
            THEN Outcome("editing", messages, repos, log, NoMsg,
                         [path |-> path, prompt |-> act.prompt])
            ELSE Outcome("awaiting", Append(messages, Observation("notFound", path, "")),
                         repos, log, NoMsg, NoEdit)
        ELSE IF act.action = "finish" THEN
            Outcome("finished", messages, repos, log, act.message, NoEdit)
        ELSE Outcome("error", messages, repos, log, UnknownAction, NoEdit)

\* the turn cap: a loop that would go on after MaxTurns turns ends in ERROR
Capped(out, turn) ==
    IF out.pc = "awaiting" /\ turn >= MaxTurns
    THEN [out EXCEPT !.pc = "error", !.surfaced = TooManySteps]
    ELSE out

-----------------------------------------------------------------------------
(* The components at rest.                                                 *)

NoRun == [stage |-> "none", repo |-> Repo("", <<>>), input |-> "",
          filePath |-> <<>>, changeDescription |-> "", originalCode |-> ""]

\* useState<string | null>(null)
NoRepoId == "null"

NoToast == [shown |-> FALSE, repoId |-> "", filePath |-> <<>>]

AgentIdle ==
    /\ aPc = "idle"
    /\ aMessages = <<>>
    /\ aTurn = 0
    /\ aRequests = 0
    /\ aSurfaced = NoMsg
    /\ aLastNet = NoNet
    /\ aLastResult = NoResult
    /\ aAllReads = TRUE
    /\ aSessions = 0
    /\ aRepoId = "r1"
    /\ aEdit = NoEdit

PageIdle ==
    /\ pSelectedRepoId = NoRepoId
    /\ pMessages = <<>>
    /\ pInput = ""
    /\ pIsLoading = FALSE
    /\ pSelectedFilePaths = {}
    /\ pRun = NoRun
    /\ pSends = 0
    /\ pLastReply = <<>>
    /\ pToast = NoToast

DiffIdle ==
    /\ dOriginal = <<>>
    /\ dModified = <<>>
    /\ dResult = <<>>
    /\ dPc = "input"

\* what the upstream answers: t is "response" or "unreachable" ("none": not yet)
Up(t, status, body) == [t |-> t, status |-> status, body |-> body]
NoUp == Up("none", 0, "none")

Call(op, url, model, up) == [op |-> op, url |-> url, model |-> model, up |-> up]
NoCall == Call("none", "", "", NoUp)

\* what a caller gets: a value (ok) or an error of some kind, with the status
\* code and the body its message carries (0 and "none" when it carries none)
\* and the number of requests the call issued
Res(ok, kind, status, body, requests) ==
    [ok |-> ok, kind |-> kind, status |-> status, body |-> body, requests |-> requests]
NoRes == Res(FALSE, "none", 0, "none", 0)

NetIdle ==
    /\ nPc = "idle"
    /\ nCall = NoCall
    /\ nResult = NoRes
    /\ nTimer = FALSE
    /\ nCalls = 0

Jobs == {"j1", "j2"}
\* activeJob: null, or what was last shown of a job
Job(job_id, status) == [job_id |-> job_id, status |-> status]
NoJob == Job("null", "null")

TrainIdle ==
    /\ tMounted = FALSE
    /\ tStatus = [j \in Jobs |-> "none"]
    /\ tJobsList = [j \in Jobs |-> "none"]
    /\ tActiveJob = NoJob
    /\ tPollingIntervalId = 0
    /\ tTimers = {}
    /\ tNextId = 1

IsKnownRead(net, fileList) ==
    /\ net.t = "ok"
    /\ \E p \in ActionPaths :
        /\ InFileList(fileList, NormalizePath(p))
        /\ net.raw \in {<<J(ReadFileObj(p))>>, <<FenceOpen, J(ReadFileObj(p)), FenceClose>>}

AgentInit ==
    /\ repositories = InitialRepositories
    /\ tasks = <<>>
    /\ ollamaUrl \in {"", "http://localhost:11434"}
    /\ ollamaModel \in {"", "qwen"}
    /\ variant \in Variants
    /\ AgentIdle
    /\ PageIdle
    /\ DiffIdle
    /\ NetIdle
    /\ TrainIdle

\* the user sends a request: the loop starts
StartSession ==
    /\ aPc \in {"idle", "finished", "error"}
    /\ aSessions < MaxSessions
    /\ \E rid \in RepoIds : aRepoId' = rid
    /\ aSessions' = aSessions + 1
    /\ aPc' = "awaiting"
    /\ aMessages' = <<UserMessage>>
    /\ aTurn' = 0
    /\ aRequests' = 0
    /\ aSurfaced' = NoMsg
    /\ aLastNet' = NoNet
    /\ aLastResult' = NoResult
    /\ aAllReads' = TRUE
    /\ aEdit' = NoEdit
    /\ UNCHANGED <<appVars, cfgVars, pageVars, diffVars, netVars, trainVars>>

\* one turn: runAiAgent is called, its result is executed
AgentTurn ==
    /\ aPc = "awaiting"
    /\ aTurn < MaxTurns
    /\ \E net \in NetOutcomes :
        LET fileList == FileList(repositories, aRepoId)
            res == RunAiAgent(variant, fileList, aMessages, ollamaUrl, ollamaModel, net)
            out == Capped(ExecuteTurn(res, aMessages, repositories, tasks, aRepoId),
                          aTurn + 1)
        IN  /\ aLastNet' = net
            /\ aLastResult' = res.t
            /\ aRequests' = aRequests + (IF res.requested THEN 1 ELSE 0)
            /\ aAllReads' = (aAllReads /\ IsKnownRead(net, fileList))
            /\ aTurn' = aTurn + 1
            /\ aPc' = out.pc
            /\ aMessages' = out.messages
            /\ repositories' = out.repos
            /\ tasks' = out.log
            /\ aSurfaced' = out.surfaced
            /\ aEdit' = out.edit
    /\ UNCHANGED <<cfgVars, aSessions, aRepoId, pageVars, diffVars, netVars, trainVars>>

\* the follow-up call of a naturalLanguageWriteFile answers: its text is written
AgentEditReply ==
    /\ aPc = "editing"
    /\ \E ok \in BOOLEAN, c \in Contents :
        LET w == ExecuteWrite(repositories, tasks, aRepoId, aEdit.path, c, aEdit.prompt)
            out == IF ok
                   THEN Capped(Outcome("awaiting", Append(aMessages, w.obs), w.repos,
                                       w.log, NoMsg, NoEdit), aTurn)
                   ELSE Outcome("error", aMessages, repositories, tasks,
                                Msg("fetch failed", <<>>, <<>>), NoEdit)
        IN  /\ aPc' = out.pc
            /\ aMessages' = out.messages
            /\ repositories' = out.repos
            /\ tasks' = out.log
            /\ aSurfaced' = out.surfaced
            /\ aEdit' = out.edit
    /\ aRequests' = aRequests + 1
    /\ UNCHANGED <<cfgVars, aSessions, aRepoId, aTurn, aLastNet, aLastResult, aAllReads,
                   pageVars, diffVars, netVars, trainVars>>

AgentNext == StartSession \/ AgentTurn \/ AgentEditReply

SpecAgent == AgentInit /\ [][AgentNext]_vars

-----------------------------------------------------------------------------
(* runAiAgent of part_001 called again and again on a history to which     *)
(* every returned action is appended as an 'ai' message.                   *)

AiMessage(content) == ChatMsg("ai", "ai", <<>>, "", NoMsg, content)

\* what the last 'ai' message of a history holds before the first call
StoredTexts ==
    {<<J(ReadFileObj(PathDotA))>>, <<FenceOpen, J(ReadFileObj(PathZ)), FenceClose>>,
     <<J(WriteFileObj(PathA, "c1"))>>, <<J(BogusObj)>>, <<J(EmptyObj)>>,
     <<Prose>>, <<Prose, J(FinishObj(Msg("All done.", <<>>, <<>>)))>>}

Histories ==
    {<<UserMessage>>}
    \cup {<<UserMessage, AiMessage(t)>> : t \in StoredTexts}
    \cup {<<UserMessage, AiMessage(t), Observation("fileContent", PathA, "c0")>> :
            t \in StoredTexts}

ReplayInit ==
    /\ repositories = InitialRepositories
    /\ tasks = <<>>
    /\ ollamaUrl = "http://localhost:11434"
    /\ ollamaModel = "qwen"
    /\ variant = "part_001"
    /\ aPc = "idle"
    /\ aMessages \in Histories
    /\ aTurn = 0
    /\ aRequests = 0
    /\ aSurfaced = NoMsg
    /\ aLastNet = NoNet
    /\ aLastResult = NoResult
    /\ aAllReads = TRUE
    /\ aSessions = 0
    /\ aRepoId \in RepoIds
    /\ aEdit = NoEdit
    /\ PageIdle
    /\ DiffIdle
    /\ NetIdle
    /\ TrainIdle

\* one call of runAiAgent; the driver appends what it returned
ReplayCall ==
    /\ aTurn < MaxReplays
    /\ \E net \in NetOutcomes :
        LET res == RunAiAgentPart001(FileList(repositories, aRepoId), aMessages,
                                     ollamaUrl, ollamaModel, net)
        IN  /\ aLastResult' = res.t
            /\ aLastNet' = IF res.requested THEN net ELSE NoNet
            /\ aRequests' = aRequests + (IF res.requested THEN 1 ELSE 0)
            /\ aSurfaced' = res.err
            /\ aMessages' = IF res.t = "return"
                            THEN Append(aMessages, AiMessage(res.response))
                            ELSE aMessages
    /\ aTurn' = aTurn + 1
    /\ UNCHANGED <<appVars, cfgVars, aPc, aAllReads, aSessions, aRepoId, aEdit,
                   pageVars, diffVars, netVars, trainVars>>

ReplayNext == ReplayCall

SpecReplay == ReplayInit /\ [][ReplayNext]_vars

-----------------------------------------------------------------------------
(* The debugger page: handleSend and handleApplyChange.                    *)

PMsg(role, kind, err, body, filePath, originalCode, modifiedCode) ==
    [role |-> role, kind |-> kind, err |-> err, body |-> body, filePath |-> filePath,
     originalCode |-> originalCode, modifiedCode |-> modifiedCode]
PUserMsg == PMsg("user", "user", "", <<>>, <<>>, "", "")
\* { role: 'ai', content: aiResponseText }
PTextMsg(body) == PMsg("ai", "text", "", body, <<>>, "", "")
\* { role: 'ai', content: `I encountered an error: ${errorMessage}` }
PErrorMsg(err, filePath) == PMsg("ai", "error", err, <<>>, filePath, "", "")
\* the message with codeChange: { filePath, originalCode, modifiedCode }
PCardMsg(filePath, originalCode, modifiedCode) ==
    PMsg("ai", "card", "", <<>>, filePath, originalCode, modifiedCode)

\* the object the analysis prompt asks for: { filePath, changeDescription }
PObj(filePath, changeDescription) ==
    [filePath |-> filePath, changeDescription |-> changeDescription]
NoPObj == PObj(NoPath, "undefined")
PJ(v) == [k |-> "json", v |-> v]
PProse == [k |-> "prose", v |-> NoPObj]
\* the JSON text "null"
PNull == [k |-> "null", v |-> NoPObj]

\* the paths the analysis proposes changes to
PagePaths == {PathA, PathB, PathDotA}

AnalysisTexts ==
    {<<PJ(PObj(p, "rename x"))>> : p \in PagePaths}
    \cup {<<PJ(PObj(PathA, "undefined"))>>, <<PJ(NoPObj)>>, <<PProse>>, <<PNull>>,
          <<PProse, PJ(PObj(PathA, "rename x"))>>}

PageContents == {"c1", "c2"}
InputTexts == {"", " ", "fix it"}
\* !input.trim()
IsBlank(t) == t = "" \/ t = " "

\* JSON.parse(aiResponseText) succeeds on the text of one JSON value
PageParses(text) == Len(text) = 1 /\ text[1].k \in {"json", "null"}

\* selectedRepo: repositories.find(repo => repo.id === selectedRepoId)
HasSelectedRepo == RepoIndex(repositories, pSelectedRepoId, 1) # 0
SelectedRepo == repositories[RepoIndex(repositories, pSelectedRepoId, 1)]

\* selectedRepo.files.filter(file => selectedFilePaths.has(file.path)).length
ContextFileCount(repo, selected) ==
    Cardinality({i \in 1..Len(repo.files) : repo.files[i].path \in selected})

PageDoneKeepsLoading(msgs) ==
    /\ pMessages' = msgs
    /\ pIsLoading' = TRUE
    /\ pRun' = NoRun

\* the end of handleSend: the last message is appended, finally clears isLoading
PageDone(msgs) ==
    /\ pMessages' = msgs
    /\ pIsLoading' = FALSE
    /\ pRun' = NoRun

InputDisabledIgnoresLoading(isLoading, hasRepo) == ~hasRepo

\* <Input disabled={isLoading || !selectedRepo}>: no typing and no Enter key
InputDisabled(isLoading, hasRepo) == isLoading \/ ~hasRepo

\* <Button disabled={isLoading || !input.trim() || !selectedRepo}>
ButtonDisabled(isLoading, input, hasRepo) == isLoading \/ IsBlank(input) \/ ~hasRepo

\* handleSend, from the Enter key or the send button, up to its first await
HandleSend ==
    /\ \/ ~InputDisabled(pIsLoading, HasSelectedRepo)
       \/ ~ButtonDisabled(pIsLoading, pInput, HasSelectedRepo)
    /\ ~IsBlank(pInput)
    /\ HasSelectedRepo
    /\ pSends < MaxSends
    /\ pSends' = pSends + 1
    /\ pInput' = ""
    /\ pLastReply' = <<>>
    /\ IF ContextFileCount(SelectedRepo, pSelectedFilePaths) = 0
       THEN PageDone(pMessages \o <<PUserMsg, PErrorMsg("Please select at least one file", <<>>)>>)
       ELSE /\ pMessages' = Append(pMessages, PUserMsg)
            /\ pIsLoading' = TRUE
            /\ pRun' = [NoRun EXCEPT !.stage = "analyzing", !.repo = SelectedRepo,
                                      !.input = pInput]
    /\ UNCHANGED <<appVars, cfgVars, agentVars, diffVars, pSelectedRepoId, pSelectedFilePaths,
                   pToast, netVars, trainVars>>

\* analyzeCode rejects
AnalyzeFails ==
    /\ pRun.stage = "analyzing"
    /\ PageDone(Append(pMessages, PErrorMsg("Failed to get analysis from AI model", <<>>)))
    /\ UNCHANGED <<appVars, cfgVars, agentVars, diffVars, pSelectedRepoId, pSelectedFilePaths,
                   pInput, pSends, pLastReply, pToast, netVars, trainVars>>

\* what handleSend does with analysisResult, lines 152-197
OnAnalysis(text) ==
    IF ~PageParses(text) THEN PageDone(Append(pMessages, PTextMsg(text)))
    ELSE IF text[1].k = "null"
    THEN PageDone(Append(pMessages, PErrorMsg("TypeError", <<>>)))
    ELSE
        LET parsed == text[1].v
            f == FileIndex(pRun.repo.files, parsed.filePath, 1)
        IN  IF parsed.filePath \notin {NoPath, <<>>}
               /\ parsed.changeDescription \notin {"undefined", ""}
            THEN IF f = 0
                 THEN PageDone(Append(pMessages,
                                      PErrorMsg("File not found in the current context",
                                                parsed.filePath)))
                 ELSE /\ pRun' = [pRun EXCEPT !.stage = "applying",
                                              !.filePath = parsed.filePath,
                                              !.changeDescription = parsed.changeDescription,
                                              !.originalCode = pRun.repo.files[f].content]
                      /\ UNCHANGED <<pMessages, pIsLoading>>
            ELSE PageDone(Append(pMessages, PTextMsg(text)))

\* analyzeCode resolves
AnalyzeReply ==
    /\ pRun.stage = "analyzing"
    /\ \E text \in AnalysisTexts :
        /\ pLastReply' = text
        /\ OnAnalysis(text)
    /\ UNCHANGED <<appVars, cfgVars, agentVars, diffVars, pSelectedRepoId, pSelectedFilePaths,
                   pInput, pSends, pToast, netVars, trainVars>>

\* applyCodeChanges rejects
ApplyFails ==
    /\ pRun.stage = "applying"
    /\ PageDone(Append(pMessages, PErrorMsg("Failed to apply code changes with AI model", <<>>)))
    /\ UNCHANGED <<appVars, cfgVars, agentVars, diffVars, pSelectedRepoId, pSelectedFilePaths,
                   pInput, pSends, pLastReply, pToast, netVars, trainVars>>

\* applyCodeChanges resolves: the card is shown and the task is logged
ApplyReply ==
    /\ pRun.stage = "applying"
    /\ \E c \in PageContents :
        /\ PageDone(Append(pMessages, PCardMsg(pRun.filePath, pRun.originalCode, c)))
        /\ tasks' = AddTask(tasks, Task(Now(tasks), pRun.repo.id, pRun.input,
                                        pRun.originalCode, c))
    /\ UNCHANGED <<repositories, cfgVars, agentVars, diffVars, pSelectedRepoId,
                   pSelectedFilePaths, pInput, pSends, pLastReply, pToast, netVars, trainVars>>

\* handleApplyChange, from the "Apply Change" button of the card in message i
HandleApplyChange(i) ==
    /\ pMessages[i].kind = "card"
    /\ pSelectedRepoId # NoRepoId
    /\ repositories' = UpdateFileContent(repositories, pSelectedRepoId,
                                         pMessages[i].filePath, pMessages[i].modifiedCode)
    \* toast({ title: "Change Applied!", description: `${filePath} has been updated ...` })
    /\ pToast' = [shown |-> TRUE, repoId |-> pSelectedRepoId, filePath |-> pMessages[i].filePath]
    /\ UNCHANGED <<tasks, cfgVars, agentVars, diffVars, pSelectedRepoId, pMessages, pInput,
                   pIsLoading, pSelectedFilePaths, pRun, pSends, pLastReply, netVars, trainVars>>

ApplyChange == \E i \in 1..Len(pMessages) : HandleApplyChange(i)

\* handleFileSelect
HandleFileSelect ==
    /\ HasSelectedRepo
    /\ \E i \in 1..Len(SelectedRepo.files), isChecked \in BOOLEAN :
        pSelectedFilePaths' = IF isChecked
                              THEN pSelectedFilePaths \cup {SelectedRepo.files[i].path}
                              ELSE pSelectedFilePaths \ {SelectedRepo.files[i].path}
    /\ pSelectedFilePaths' # pSelectedFilePaths
    /\ UNCHANGED <<appVars, cfgVars, agentVars, diffVars, pSelectedRepoId, pMessages, pInput,
                   pIsLoading, pRun, pSends, pLastReply, pToast, netVars, trainVars>>

\* the repository picker: onSelect
SelectRepo ==
    /\ \E r \in 1..Len(repositories) : pSelectedRepoId' = repositories[r].id
    /\ pMessages' = <<>>
    /\ pSelectedFilePaths' = {}
    /\ UNCHANGED <<appVars, cfgVars, agentVars, diffVars, pInput, pIsLoading, pRun, pSends,
                   pLastReply, pToast, netVars, trainVars>>

\* typing into the input, which is disabled while isLoading
SetInput ==
    /\ ~InputDisabled(pIsLoading, HasSelectedRepo)
    /\ \E t \in InputTexts : pInput' = t /\ t # pInput
    /\ UNCHANGED <<appVars, cfgVars, agentVars, diffVars, pSelectedRepoId, pMessages,
                   pIsLoading, pSelectedFilePaths, pRun, pSends, pLastReply, pToast, netVars, trainVars>>

PageInit ==
    /\ repositories = InitialRepositories
    /\ tasks = <<>>
    /\ ollamaUrl = "http://localhost:11434"
    /\ ollamaModel = "qwen"
    /\ variant = "part_001"
    /\ AgentIdle
    /\ PageIdle
    /\ DiffIdle
    /\ NetIdle
    /\ TrainIdle

PageNext ==
    \/ HandleSend
    \/ AnalyzeFails
    \/ AnalyzeReply
    \/ ApplyFails
    \/ ApplyReply
    \/ ApplyChange
    \/ HandleFileSelect
    \/ SelectRepo
    \/ SetInput

SpecPage == PageInit /\ [][PageNext]_vars

\* the promise handleSend awaits settles: analyzeCode and applyCodeChanges
\* resolve or reject, and the continuation of handleSend then runs
SpecPageFair ==
    /\ SpecPage
    /\ WF_vars(AnalyzeFails \/ AnalyzeReply)
    /\ WF_vars(ApplyFails \/ ApplyReply)

-----------------------------------------------------------------------------
(* The diff viewer: diffLines.  A text is a sequence of characters, a line  *)
(* a sequence of characters without line feed.  The numbers the algorithm   *)
(* keeps are JavaScript values: a number, undefined (a hole of the array,   *)
(* an index outside it) or NaN (arithmetic on undefined).                   *)

LF == "\n"
Chars == {"a", "b", LF}

\* the scenario of the specification, one character per word
ScenarioOriginal == <<"1", LF, "2", LF, "3">>
ScenarioModified == <<"1", LF, "X", LF, "3">>

DiffTexts ==
    UNION {[1..n -> Chars] : n \in 0..MaxStrLen} \cup {ScenarioOriginal, ScenarioModified}

\* text.split('\n'): never empty, '' splits into ['']
RECURSIVE SplitFrom(_, _, _, _)
SplitFrom(text, i, cur, acc) ==
    IF i > Len(text) THEN Append(acc, cur)
    ELSE IF text[i] = LF THEN SplitFrom(text, i + 1, <<>>, Append(acc, cur))
    ELSE SplitFrom(text, i + 1, Append(cur, text[i]), acc)

Split(text) == SplitFrom(text, 1, <<>>, <<>>)

Num(n) == [t |-> "num", n |-> n]
Undefined == [t |-> "undefined", n |-> 0]
NaN == [t |-> "NaN", n |-> 0]

\* a < b, a >= b, a > b: false when either side is undefined or NaN
JsLt(a, b) == a.t = "num" /\ b.t = "num" /\ a.n < b.n
JsGe(a, b) == a.t = "num" /\ b.t = "num" /\ a.n >= b.n
JsGt(a, b) == a.t = "num" /\ b.t = "num" /\ a.n > b.n
\* a + n, a - n
JsAdd(a, n) == IF a.t = "num" THEN Num(a.n + n) ELSE NaN

\* arr[i] of an array of numbers, i counted from 0
ArrGet(arr, i) == IF i < 0 \/ i >= Len(arr) THEN Undefined ELSE arr[i + 1]

\* lines[i] of an array of lines, i counted from 0
DefinedLine(line) == [defined |-> TRUE, s |-> line]
UndefinedLine == [defined |-> FALSE, s |-> <<>>]
LineGet(lines, i) ==
    IF i < 0 \/ i >= Len(lines) THEN UndefinedLine ELSE DefinedLine(lines[i + 1])

Entry(value, tag) == [value |-> value, tag |-> tag]

\* new Array(2 * max + 1) with v[max + 1] = 0
InitialV(max) == [i \in 1..(2 * max + 1) |-> IF i = max + 2 THEN Num(0) ELSE Undefined]

\* the x a diagonal starts from: v[index + 1] when the step goes down,
\* v[index - 1] + 1 when it goes right
StartX(k, d, arr, index) ==
    IF k = -d \/ (k # d /\ JsLt(ArrGet(arr, index - 1), ArrGet(arr, index + 1)))
    THEN ArrGet(arr, index + 1)
    ELSE JsAdd(ArrGet(arr, index - 1), 1)

SnakeStays(x, y, originalLines, modifiedLines) == x

\* while (x < N && y < M && originalLines[x] === modifiedLines[y]) { x++; y++ }
RECURSIVE Snake(_, _, _, _)
Snake(x, y, originalLines, modifiedLines) ==
    IF /\ JsLt(x, Num(Len(originalLines)))
       /\ JsLt(y, Num(Len(modifiedLines)))
       /\ originalLines[x.n + 1] = modifiedLines[y.n + 1]
    THEN Snake(JsAdd(x, 1), JsAdd(y, 1), originalLines, modifiedLines)
    ELSE x

BackSnakeStays(originalLines, px, py, prevX, prevY, result) ==
    [px |-> px, py |-> py, result |-> result]

\* while (px > prevX && py > prevY) { result.unshift(unchanged); px--; py-- }
RECURSIVE BackSnake(_, _, _, _, _, _)
BackSnake(originalLines, px, py, prevX, prevY, result) ==
    IF JsGt(Num(px), prevX) /\ JsGt(Num(py), prevY)
    THEN BackSnake(originalLines, px - 1, py - 1, prevX, prevY,
                   <<Entry(LineGet(originalLines, px - 1), "unchanged")>> \o result)
    ELSE [px |-> px, py |-> py, result |-> result]

\* the back-tracking loop, for (let i = trace.length - 1; i >= 0; i--)
RECURSIVE BackTrack(_, _, _, _, _, _, _, _, _)
BackTrack(originalLines, modifiedLines, d, v, trace, i, px, py, result) ==
    IF i < 0 THEN [px |-> px, py |-> py, result |-> result]
    ELSE
        LET max == Len(originalLines) + Len(modifiedLines)
            pv == IF i >= 1 THEN trace[i] ELSE v
            k == px - py
            pIndex == max + k
            prevX == StartX(k, d, pv, pIndex)
            prevY == JsAdd(prevX, -k)
            s == BackSnake(originalLines, px, py, prevX, prevY, result)
        IN  IF i > 0
            THEN IF JsLt(prevX, Num(s.px))
                 THEN BackTrack(originalLines, modifiedLines, d, v, trace, i - 1,
                                s.px - 1, s.py,
                                <<Entry(LineGet(originalLines, s.px - 1), "removed")>>
                                    \o s.result)
                 ELSE BackTrack(originalLines, modifiedLines, d, v, trace, i - 1,
                                s.px, s.py - 1,
                                <<Entry(LineGet(modifiedLines, s.py - 1), "added")>>
                                    \o s.result)
            ELSE BackTrack(originalLines, modifiedLines, d, v, trace, i - 1,
                           s.px, s.py, s.result)

\* the two nested loops over d and k; inner is TRUE when the result comes from
\* the return inside them
RECURSIVE Forward(_, _, _, _, _, _, _)
Forward(originalLines, modifiedLines, d, k, v, newV, trace) ==
    LET N == Len(originalLines)
        M == Len(modifiedLines)
        max == N + M
    IN  IF d > max THEN [inner |-> FALSE, px |-> 0, py |-> 0, result |-> <<>>]
        ELSE IF k > d
        THEN Forward(originalLines, modifiedLines, d + 1, -(d + 1), newV, newV,
                     Append(trace, newV))
        ELSE
            LET index == max + k
                x0 == StartX(k, d, v, index)
                x == Snake(x0, JsAdd(x0, -k), originalLines, modifiedLines)
                y == JsAdd(x, -k)
                nv == [newV EXCEPT ![index + 1] = x]
            IN  IF JsGe(x, Num(N)) /\ JsGe(y, Num(M))
                THEN LET b == BackTrack(originalLines, modifiedLines, d, v,
                                        Append(trace, nv), Len(trace), N, M, <<>>)
                     IN  [inner |-> TRUE, px |-> b.px, py |-> b.py, result |-> b.result]
                ELSE Forward(originalLines, modifiedLines, d, k + 2, v, nv, trace)

\* diffLines(original, modified), with where it returned from and where the
\* back-tracking cursor ended
DiffRun(original, modified) ==
    LET originalLines == Split(original)
        modifiedLines == Split(modified)
        v == InitialV(Len(originalLines) + Len(modifiedLines))
    IN  Forward(originalLines, modifiedLines, 0, 0, v, v, <<>>)

DiffLines(original, modified) == DiffRun(original, modified).result

\* UnifiedDiffViewer: the viewer computes the diff of the two texts it is given
UnifiedDiffViewer ==
    /\ dPc = "input"
    /\ dResult' = DiffLines(dOriginal, dModified)
    /\ dPc' = "done"
    /\ UNCHANGED <<appVars, cfgVars, agentVars, pageVars, dOriginal, dModified, netVars, trainVars>>

DiffInit ==
    /\ repositories = InitialRepositories
    /\ tasks = <<>>
    /\ ollamaUrl = "http://localhost:11434"
    /\ ollamaModel = "qwen"
    /\ variant = "part_001"
    /\ AgentIdle
    /\ PageIdle
    /\ dOriginal \in DiffTexts
    /\ dModified \in DiffTexts
    /\ dResult = <<>>
    /\ dPc = "input"
    /\ NetIdle
    /\ TrainIdle

DiffNext == UnifiedDiffViewer

SpecDiff == DiffInit /\ [][DiffNext]_vars

-----------------------------------------------------------------------------
(* The application context on its own: the operations it hands out, called *)
(* in any order, from a log as it is loaded from local storage.            *)

\* removeRepository: prev.filter(r => r.id !== repoId)
RemoveRepository(repos, repoId) == SelectSeq(repos, LAMBDA r : r.id # repoId)

\* addRepository: replaces the repository with that id, else appends
AddRepository(repos, repo) ==
    IF RepoIndex(repos, repo.id, 1) # 0
    THEN [r \in 1..Len(repos) |-> IF repos[r].id = repo.id THEN repo ELSE repos[r]]
    ELSE Append(repos, repo)

\* the log after n calls of addTask, as stored
StoredLog(n) == [i \in 1..n |-> Task(n - i + 1, "r1", "fix it", "c0", "c1")]

StoredLogLengths == {0, TaskCap - 1, TaskCap}

CtxAddTask ==
    /\ \E n \in StoredLogLengths : Now(tasks) \in (n + 1)..(n + MaxAdds)
    /\ \E repoId \in RepoIds, c \in PageContents :
        tasks' = AddTask(tasks, Task(Now(tasks), repoId, "fix it", "c0", c))
    /\ UNCHANGED <<repositories, cfgVars, agentVars, pageVars, diffVars, netVars, trainVars>>

CtxUpdateFileContent ==
    /\ \E repoId \in RepoIds, path \in PagePaths, c \in PageContents :
        repositories' = UpdateFileContent(repositories, repoId, path, c)
    /\ UNCHANGED <<tasks, cfgVars, agentVars, pageVars, diffVars, netVars, trainVars>>

CtxRemoveRepository ==
    /\ \E repoId \in RepoIds : repositories' = RemoveRepository(repositories, repoId)
    /\ UNCHANGED <<tasks, cfgVars, agentVars, pageVars, diffVars, netVars, trainVars>>

CtxAddRepository ==
    /\ \E r \in 1..Len(InitialRepositories) :
        repositories' = AddRepository(repositories, InitialRepositories[r])
    /\ UNCHANGED <<tasks, cfgVars, agentVars, pageVars, diffVars, netVars, trainVars>>

CtxInit ==
    /\ repositories = InitialRepositories
    /\ \E n \in StoredLogLengths : tasks = StoredLog(n)
    /\ ollamaUrl = "http://localhost:11434"
    /\ ollamaModel = "qwen"
    /\ variant = "part_001"
    /\ AgentIdle
    /\ PageIdle
    /\ DiffIdle
    /\ NetIdle
    /\ TrainIdle

CtxNext ==
    \/ CtxAddTask
    \/ CtxUpdateFileContent
    \/ CtxRemoveRepository
    \/ CtxAddRepository

SpecContext == CtxInit /\ [][CtxNext]_vars

-----------------------------------------------------------------------------
(* Network calls: the /api/ollama proxy, the model invocations that go     *)
(* through it or straight to the endpoint, and the connection probes.      *)

\* bodies: "json" is the JSON a healthy endpoint answers with, "jsonError" a
\* JSON object with an "error" member, "html" the warning page of the tunnel
\* (it holds the ngrok markers), "text" a plain text such as "404 page not found"
JsonBodies == {"json", "jsonError"}
ErrorBodies == {"json", "jsonError", "html", "text"}

UpstreamOutcomes ==
    {Up("unreachable", 0, "none")}
    \cup {Up("response", 200, b) : b \in {"json", "html"}}
    \cup {Up("response", st, b) : st \in {404, 500}, b \in ErrorBodies}

IsOk(status) == status >= 200 /\ status <= 299

\* what the proxy answers: a status, a body, and the "details" member of the
\* body when it is the proxy's own error object
PResp(status, body, details) == [status |-> status, body |-> body, details |-> details]

\* POST of /api/ollama
ProxyPost(up) ==
    IF up.t = "unreachable" THEN PResp(500, "proxyError", "fetch failed")
    ELSE IF ~IsOk(up.status) THEN PResp(up.status, up.body, "none")
    ELSE IF up.body \in JsonBodies THEN PResp(up.status, up.body, "none")
    ELSE PResp(500, "proxyError", "Unexpected token")

\* response.json() of a proxy answer succeeds
ParsesAsJson(body) == body \in JsonBodies \cup {"proxyError"}

Urls == {"", "http://localhost:11434"}
Models == {"", "qwen"}
\* the URLs a connection test is given
ProbeUrls == {"", "localhost:11434", "http://localhost:11434"}
IsHttpUrl(url) == url = "http://localhost:11434"

ConfigFails(url, model) == url = "" \/ model = ""

AgentFetchKeepsStatus(url, model, up) ==
    Res(FALSE, "status", up.status, up.body, 1)

\* runAiAgent up to the check of response.ok (the same in its three versions)
AgentFetch(url, model, up) ==
    IF ConfigFails(url, model) THEN Res(FALSE, "config", 0, "none", 0)
    ELSE
        LET resp == ProxyPost(up)
        IN  IF ~ParsesAsJson(resp.body) THEN Res(FALSE, "Unexpected token", 0, "none", 1)
            ELSE IF ~IsOk(resp.status)
            \* `status ${response.status}: ${data.error || JSON.stringify(data)}`
            THEN Res(FALSE, "status", resp.status, resp.body, 1)
            ELSE Res(TRUE, "ok", 0, "none", 1)

DirectFetchSkipsConfig(url, model, up) ==
    Res(FALSE, "fetch failed", 0, "none", 1)

\* analyzeCode and applyCodeChanges: fetch of the endpoint itself
DirectFetch(url, model, up) ==
    IF ConfigFails(url, model) THEN Res(FALSE, "config", 0, "none", 0)
    ELSE IF up.t = "unreachable" THEN Res(FALSE, "fetch failed", 0, "none", 1)
    ELSE IF ~IsOk(up.status) THEN Res(FALSE, "status", up.status, up.body, 1)
    ELSE IF up.body \notin JsonBodies THEN Res(FALSE, "Unexpected token", 0, "none", 1)
    ELSE Res(TRUE, "ok", 0, "none", 1)

\* the "details" in which testOllamaConnection looks for 'ERR_NGROK_'; the proxy
\* fills "details" with the message of the error it caught, never with the page
NgrokDetails == {"ERR_NGROK_"}

\* testOllamaConnection of lib/ollama.ts: /api/tags through the proxy
ConnectionTest(url, up) ==
    IF ~IsHttpUrl(url) THEN Res(FALSE, "Invalid URL format", 0, "none", 0)
    ELSE
        LET resp == ProxyPost(up)
        IN  IF ~ParsesAsJson(resp.body)
            THEN Res(FALSE, "An unexpected error occurred: Unexpected token", 0, "none", 1)
            ELSE IF IsOk(resp.status) THEN Res(TRUE, "ok", 0, "none", 1)
            ELSE IF resp.details \in NgrokDetails
            THEN Res(FALSE, "Connection blocked by ngrok", 0, "none", 1)
            \* the status of the proxy's own error is 500, never 404
            ELSE IF resp.details # "none"
            THEN Res(FALSE, "Failed to connect to Ollama server through proxy", 0,
                     resp.details, 1)
            ELSE IF resp.body = "jsonError" THEN Res(FALSE, "upstream error", 0, resp.body, 1)
            ELSE Res(FALSE, "status", resp.status, "none", 1)

ProbeOps == {"test/route.ts", "part_003"}

ProbeCatchAsNetwork(aborted) == Res(FALSE, "network", 0, "none", 1)

\* the catch block of a probe: AbortError is the timeout
ProbeCatch(aborted) ==
    IF aborted THEN Res(FALSE, "Connection timed out after 10 seconds", 0, "none", 1)
    ELSE Res(FALSE, "network", 0, "none", 1)

\* a probe whose fetch has settled with that upstream answer
ProbeSettled(op, up) ==
    IF up.t = "unreachable" THEN ProbeCatch(FALSE)
    ELSE IF IsOk(up.status)
    THEN IF up.body \in JsonBodies THEN Res(TRUE, "ok", 0, "none", 1)
         \* response.json() throws inside the try
         ELSE ProbeCatch(FALSE)
    ELSE IF op = "part_003" /\ up.body = "html"
    THEN Res(FALSE, "Connection blocked by ngrok", 0, "none", 1)
    ELSE Res(FALSE, "status", up.status, up.body, 1)

\* a model invocation: runAiAgent, analyzeCode or applyCodeChanges
InvokeModel ==
    /\ nPc # "pending"
    /\ nCalls < MaxCalls
    /\ \E op \in {"runAiAgent", "analyzeCode", "applyCodeChanges"},
          url \in Urls, model \in Models, up \in UpstreamOutcomes :
        /\ nCall' = Call(op, url, model, up)
        /\ nResult' = IF op = "runAiAgent" THEN AgentFetch(url, model, up)
                      ELSE DirectFetch(url, model, up)
    /\ nPc' = "done"
    /\ nCalls' = nCalls + 1
    /\ UNCHANGED <<appVars, cfgVars, agentVars, pageVars, diffVars, trainVars, nTimer>>

\* the connection test of the settings page, through the proxy
TestConnection ==
    /\ nPc # "pending"
    /\ nCalls < MaxCalls
    /\ \E url \in ProbeUrls, up \in UpstreamOutcomes :
        /\ nCall' = Call("testOllamaConnection", url, "", up)
        /\ nResult' = ConnectionTest(url, up)
    /\ nPc' = "done"
    /\ nCalls' = nCalls + 1
    /\ UNCHANGED <<appVars, cfgVars, agentVars, pageVars, diffVars, trainVars, nTimer>>

\* a probe starts: the timeout is armed and the fetch is issued
ProbeStart ==
    /\ nPc # "pending"
    /\ nCalls < MaxCalls
    /\ \E op \in ProbeOps, url \in ProbeUrls :
        /\ nCall' = Call(op, url, "", NoUp)
        /\ IF IsHttpUrl(url)
           THEN nPc' = "pending" /\ nTimer' = TRUE /\ nResult' = NoRes
           ELSE /\ nPc' = "done" /\ nTimer' = FALSE
                /\ nResult' = Res(FALSE, "Invalid URL format", 0, "none", 0)
    /\ nCalls' = nCalls + 1
    /\ UNCHANGED <<appVars, cfgVars, agentVars, pageVars, diffVars, trainVars>>

\* the fetch of the probe settles first: clearTimeout
ProbeResponse ==
    /\ nPc = "pending"
    /\ \E up \in UpstreamOutcomes :
        /\ nCall' = [nCall EXCEPT !.up = up]
        /\ nResult' = ProbeSettled(nCall.op, up)
    /\ nTimer' = FALSE
    /\ nPc' = "done"
    /\ UNCHANGED <<appVars, cfgVars, agentVars, pageVars, diffVars, trainVars, nCalls>>

\* the timeout fires first: controller.abort() rejects the fetch
ProbeTimeout ==
    /\ nPc = "pending"
    /\ nTimer
    /\ nResult' = ProbeCatch(TRUE)
    /\ nTimer' = FALSE
    /\ nPc' = "done"
    /\ UNCHANGED <<appVars, cfgVars, agentVars, pageVars, diffVars, trainVars, nCall, nCalls>>

NetInit ==
    /\ repositories = InitialRepositories
    /\ tasks = <<>>
    /\ ollamaUrl = "http://localhost:11434"
    /\ ollamaModel = "qwen"
    /\ variant = "part_001"
    /\ AgentIdle
    /\ PageIdle
    /\ DiffIdle
    /\ NetIdle
    /\ TrainIdle

NetNext ==
    \/ InvokeModel
    \/ TestConnection
    \/ ProbeStart
    \/ ProbeResponse
    \/ ProbeTimeout

SpecNet == NetInit /\ [][NetNext]_vars

-----------------------------------------------------------------------------
(* The training monitor: TrainModelClient polls the status of a job with   *)
(* setInterval.  A timer is the interval's id, the job it polls, and the   *)
(* pollingIntervalId that the pollJobStatus of its callback closed over.   *)

Timer(id, job, captured, sawEnd) ==
    [id |-> id, job |-> job, captured |-> captured, sawEnd |-> sawEnd]

Terminal == {"completed", "failed", "stopped"}
Active == {"running", "pending"}

\* a status poll ends the polling: the request failed, or the status is final
PollEnds(status, ok) == ~ok \/ status \in Terminal

\* if (pollingIntervalId) clearInterval(pollingIntervalId), on the captured id
ClearInterval(timers, id) == {t \in timers : t.id # id}

\* pollJobStatus(jobId) with the pollingIntervalId its closure holds: the timers,
\* pollingIntervalId, activeJob and jobsList it leaves
PollJobStatus(job, captured, ok, timers, pollingId, activeJob, jobsList, status) ==
    [timers |-> IF PollEnds(status[job], ok) THEN ClearInterval(timers, captured)
                ELSE timers,
     pollingId |-> IF PollEnds(status[job], ok) THEN 0 ELSE pollingId,
     activeJob |-> IF ok THEN Job(job, status[job]) ELSE activeJob,
     \* fetchJobsList() after a final status
     jobsList |-> IF ok /\ status[job] \in Terminal THEN status ELSE jobsList]

\* the mount effect: checkActiveJob and fetchJobsList
TrainMount ==
    /\ ~tMounted
    /\ tMounted' = TRUE
    /\ \E st \in [Jobs -> {"none", "running"}] :
        \* what the server holds when the page is opened: at most one job runs
        /\ Cardinality({j \in Jobs : st[j] = "running"}) <= 1
        /\ st["j2"] = "running" => st["j1"] = "none"
        /\ tStatus' = st
        /\ tJobsList' = st
        /\ IF \E j \in Jobs : st[j] = "running"
           THEN \E ok \in BOOLEAN :
                LET job == CHOOSE j \in Jobs : st[j] = "running"
                    t == Timer(tNextId, job, 0, FALSE)
                    p == PollJobStatus(job, 0, ok, {t}, tNextId, tActiveJob, st, st)
                IN  /\ tTimers' = p.timers
                    /\ tPollingIntervalId' = p.pollingId
                    /\ tActiveJob' = p.activeJob
                    /\ tNextId' = tNextId + 1
           ELSE UNCHANGED <<tTimers, tPollingIntervalId, tActiveJob, tNextId>>
    /\ UNCHANGED <<appVars, cfgVars, agentVars, pageVars, diffVars, netVars>>

\* an interval fires: its callback calls the pollJobStatus it closed over
TimerTick ==
    /\ \E t \in tTimers, ok \in BOOLEAN :
        LET seen == [t EXCEPT !.sawEnd = t.sawEnd \/ PollEnds(tStatus[t.job], ok)]
            p == PollJobStatus(t.job, t.captured, ok, (tTimers \ {t}) \cup {seen},
                               tPollingIntervalId, tActiveJob, tJobsList, tStatus)
        IN  /\ tTimers' = p.timers
            /\ tPollingIntervalId' = p.pollingId
            /\ tActiveJob' = p.activeJob
            /\ tJobsList' = p.jobsList
    /\ UNCHANGED <<appVars, cfgVars, agentVars, pageVars, diffVars, netVars,
                   tMounted, tStatus, tNextId>>

\* onSubmit: the submit button is disabled while activeJob is running or pending
OnSubmit ==
    /\ tMounted
    /\ tActiveJob.status \notin Active
    /\ tNextId <= MaxTimers
    /\ \E job \in Jobs, ok \in BOOLEAN :
        /\ tStatus[job] = "none"
        /\ job = "j2" => tStatus["j1"] # "none"
        /\ IF ok
           THEN /\ tStatus' = [tStatus EXCEPT ![job] = "pending"]
                /\ tActiveJob' = Job(job, "pending")
                /\ tTimers' = tTimers \cup {Timer(tNextId, job, tPollingIntervalId, FALSE)}
                /\ tPollingIntervalId' = tNextId
                /\ tNextId' = tNextId + 1
                /\ tJobsList' = tStatus'
           ELSE /\ tActiveJob' = NoJob
                /\ UNCHANGED <<tStatus, tTimers, tPollingIntervalId, tNextId, tJobsList>>
    /\ UNCHANGED <<appVars, cfgVars, agentVars, pageVars, diffVars, netVars, tMounted>>

\* handleViewJobDetails, from the "View" button of a row of the jobs table
HandleViewJobDetails ==
    /\ tMounted
    /\ tNextId <= MaxTimers
    /\ \E job \in Jobs, ok \in BOOLEAN :
        /\ tJobsList[job] # "none"
        /\ LET cleared == ClearInterval(tTimers, tPollingIntervalId)
           IN  IF tJobsList[job] \notin Active
               THEN /\ tTimers' = cleared
                    /\ tActiveJob' = IF ok THEN Job(job, tStatus[job]) ELSE tActiveJob
                    /\ UNCHANGED <<tPollingIntervalId, tNextId, tJobsList>>
               ELSE LET t == Timer(tNextId, job, tPollingIntervalId, FALSE)
                        p == PollJobStatus(job, tPollingIntervalId, ok, cleared \cup {t},
                                           tNextId, tActiveJob, tJobsList, tStatus)
                    IN  /\ tTimers' = p.timers
                        /\ tPollingIntervalId' = p.pollingId
                        /\ tActiveJob' = p.activeJob
                        /\ tJobsList' = p.jobsList
                        /\ tNextId' = tNextId + 1
    /\ UNCHANGED <<appVars, cfgVars, agentVars, pageVars, diffVars, netVars,
                   tMounted, tStatus>>

\* the training server: a job starts to run, and ends
JobProgress ==
    /\ \E job \in Jobs :
        \/ tStatus[job] = "pending" /\ tStatus' = [tStatus EXCEPT ![job] = "running"]
        \/ /\ tStatus[job] \in Active
           /\ \E st \in Terminal : tStatus' = [tStatus EXCEPT ![job] = st]
    /\ UNCHANGED <<appVars, cfgVars, agentVars, pageVars, diffVars, netVars,
                   tMounted, tJobsList, tActiveJob, tPollingIntervalId, tTimers, tNextId>>

TrainInit ==
    /\ repositories = InitialRepositories
    /\ tasks = <<>>
    /\ ollamaUrl = "http://localhost:11434"
    /\ ollamaModel = "qwen"
    /\ variant = "part_001"
    /\ AgentIdle
    /\ PageIdle
    /\ DiffIdle
    /\ NetIdle
    /\ TrainIdle

TrainNext ==
    \/ TrainMount
    \/ TimerTick
    \/ OnSubmit
    \/ HandleViewJobDetails
    \/ JobProgress

SpecTrain == TrainInit /\ [][TrainNext]_vars

-----------------------------------------------------------------------------
(* Properties of the agent loop.                                           *)

Configured == ollamaUrl # "" /\ ollamaModel # ""

\* the step is one turn of the loop
IsAgentTurn == aPc = "awaiting" /\ aTurn' = aTurn + 1

\* a well-formed answer: the JSON object alone, or in a ```json fence
WellFormed(obj) == {<<J(obj)>>, <<FenceOpen, J(obj), FenceClose>>}

LastMessage == aMessages[Len(aMessages)]

\* C1: the loop never runs more than MaxTurns turns; it ends with the "too many
\* steps" error only after exactly MaxTurns turns; and against a model that
\* answers every turn with a readFile of a known path it goes on until the
\* MaxTurns-th turn and then ends in ERROR with that message, after MaxTurns requests.
TurnBudget ==
    /\ aTurn <= MaxTurns
    /\ aPc = "awaiting" => aTurn < MaxTurns
    /\ (aPc = "error" /\ aSurfaced = TooManySteps) => aTurn = MaxTurns
    /\ (Configured /\ aAllReads /\ aPc # "idle") =>
          IF aTurn < MaxTurns
          THEN aPc = "awaiting" /\ aRequests = aTurn
          ELSE aPc = "error" /\ aSurfaced = TooManySteps /\ aRequests = MaxTurns

TurnBudgetWitness ==
    /\ Configured /\ aAllReads
    /\ aTurn = MaxTurns
    /\ aPc = "error" /\ aSurfaced = TooManySteps
    /\ LastMessage.kind = "fileContent"

\* C4: a turn whose answer is a readFile of a file of the repository, named as
\* "a" or as "./a", appends an observation holding exactly the stored content of
\* that file, and changes no repository and no task.
KnownReadObserved ==
    [][\A p \in {PathA, PathDotA} :
        (/\ IsAgentTurn
         /\ Configured
         /\ aLastNet'.t = "ok" /\ aLastNet'.raw \in WellFormed(ReadFileObj(p))
         /\ InFileList(FileList(repositories, aRepoId), PathA))
        => /\ repositories' = repositories
           /\ tasks' = tasks
           /\ aMessages' = Append(aMessages,
                  Observation("fileContent", PathA,
                      ReadFile(repositories, aRepoId, PathA).content))
    ]_vars

KnownReadObservedWitness ==
    /\ aLastNet = Net("ok", <<J(ReadFileObj(PathDotA))>>)
    /\ LastMessage.kind = "fileContent" /\ LastMessage.path = PathA
    /\ LastMessage.code = "c1"
    /\ ReadFile(repositories, aRepoId, PathA).content = "c1"

\* C5: a turn whose answer is a well-formed finish with message M ends the loop
\* in that turn (one request, the loop FINISHED, nothing written) and surfaces M.
FinishSurfacesMessage ==
    [][\A m \in ModelMsgs :
        (/\ IsAgentTurn
         /\ Configured
         /\ aLastNet'.t = "ok" /\ aLastNet'.raw \in WellFormed(FinishObj(m)))
        => /\ aPc' = "finished"
           /\ aSurfaced' = m
           /\ aRequests' = aRequests + 1
           /\ aMessages' = aMessages
           /\ repositories' = repositories
           /\ tasks' = tasks
    ]_vars

FinishSurfacesMessageWitness ==
    /\ aLastNet = Net("ok", <<FenceOpen, J(FinishObj(Msg("All done.", <<>>, <<>>))), FenceClose>>)
    /\ aPc = "finished"
    /\ aSurfaced = Msg("All done.", <<>>, <<>>)
    /\ aTurn = 2

\* an answer in which neither a fenced block nor the whole text parses
Unparseable(raw) == raw # <<>> /\ ~ParseFencedOrWhole(raw).ok

\* C6 (as claimed): after a turn whose answer holds no parseable JSON action the
\* loop is in ERROR, the message shown quotes the raw answer, one request was
\* made in the turn and no file changed.
ParseErrorQuotesRaw ==
    (Configured /\ aLastNet.t = "ok" /\ Unparseable(aLastNet.raw)) =>
        /\ aPc = "error"
        /\ aSurfaced.quote = aLastNet.raw

\* C7 (as claimed): after a turn whose model call failed (no configuration,
\* non-2xx, network failure) or answered with an empty response, runAiAgent has
\* thrown, the loop is in ERROR, and it is not FINISHED.
FailedOrEmpty ==
    /\ aTurn >= 1 /\ aLastResult # "none"
    /\ \/ ~Configured
       \/ aLastNet.t \in {"non2xx", "non2xxText", "netfail"}
       \/ aLastNet = Net("ok", <<>>)

UnknownFileIsObserved ==
    [][(/\ IsAgentTurn
        /\ Configured
        /\ aTurn + 1 < MaxTurns
        /\ aLastNet'.t = "ok"
        /\ aLastNet'.raw \in {<<J(ReadFileObj(PathZ))>>, <<J(EditObj(PathZ, "rename x"))>>}
        /\ ~InFileList(FileList(repositories, aRepoId), PathZ))
       => /\ aLastResult' = "return"
          /\ aPc' = "awaiting"
          /\ aMessages' = Append(aMessages, Observation("notFound", PathZ, ""))
          /\ aMessages'[Len(aMessages')].role = "system"
    ]_vars

\* C23: in the transcript of a request, every write applied to a path (the
\* "written" observation of a writeFile or of a naturalLanguageWriteFile) comes
\* after a successful read of that path (a "fileContent" observation) in the
\* same request.
WriteAfterRead ==
    \A i \in 1..Len(aMessages) :
        aMessages[i].kind = "written" =>
            \E j \in 1..(i - 1) :
                /\ aMessages[j].kind = "fileContent"
                /\ aMessages[j].path = aMessages[i].path

\* the action stored in the last 'ai' message of the history, if it holds one
StoredAction ==
    IF LastAiIndex(aMessages, Len(aMessages)) = 0 THEN Failed
    ELSE ParseFencedOrWhole(aMessages[LastAiIndex(aMessages, Len(aMessages))].content)

\* C26: a call of part_001's runAiAgent on a history whose last 'ai' message
\* parses to an object with a truthy action issues no model request and gives
\* what the dispatch on that stored action gives; and once a call has returned an
\* action and it was appended as an 'ai' message, every later call returns that
\* same action without a request.
StoredActionReplayed ==
    /\ [][(aTurn' = aTurn + 1 /\ StoredAction.ok /\ Truthy(StoredAction.v.action)) =>
            LET res == Dispatch(FileList(repositories, aRepoId), StoredAction.v)
            IN  /\ aRequests' = aRequests
                /\ aLastNet' = NoNet
                /\ aLastResult' = res.t
                /\ aSurfaced' = res.err
                /\ res.t = "return" => aMessages' = Append(aMessages, AiMessage(res.response))
         ]_vars
    /\ [][(aTurn' = aTurn + 1 /\ aTurn >= 1 /\ aLastResult = "return") =>
            /\ aRequests' = aRequests
            /\ aLastResult' = "return"
            /\ aMessages' = Append(aMessages, aMessages[Len(aMessages)])
         ]_vars

StoredActionReplayedWitness ==
    /\ aTurn = MaxReplays
    /\ aRequests = 1
    /\ Len(aMessages) = 1 + MaxReplays
    /\ \A i \in 2..Len(aMessages) : aMessages[i] = AiMessage(<<J(ReadFileObj(PathDotA))>>)

-----------------------------------------------------------------------------
(* Properties of the debugger page.                                        *)

\* the stored content of the file with that path in the selected repository
StoredContent(repos, repoId, path) ==
    LET r == repos[RepoIndex(repos, repoId, 1)]
    IN  r.files[FileIndex(r.files, path, 1)].content

InSelectedRepo(path) == HasSelectedRepo /\ FileIndex(SelectedRepo.files, path, 1) # 0

\* the step shows a card
IsCardStep ==
    /\ pRun.stage = "applying"
    /\ Len(pMessages') = Len(pMessages) + 1
    /\ pMessages'[Len(pMessages')].kind = "card"

UnknownWriteRejected ==
    [][\A i \in 1..Len(pMessages) :
        (HandleApplyChange(i) /\ ~InSelectedRepo(pMessages[i].filePath)) =>
            /\ repositories' = repositories
            /\ Len(pMessages') = Len(pMessages) + 1
            /\ pMessages'[Len(pMessages')].kind = "error"
    ]_vars

\* the answer proposes a change to path p
Proposes(text, p) ==
    /\ PageParses(text) /\ text[1].k = "json"
    /\ text[1].v.filePath = p
    /\ text[1].v.changeDescription \notin {"undefined", ""}

\* C8 (as claimed): a proposed change whose path, with a leading "./" stripped,
\* is a file of the repository the request was made for is accepted (the change
\* is computed), not answered with "not found".
ProposedPathNormalized ==
    [][\A p \in PagePaths :
        (/\ pRun.stage = "analyzing"
         /\ Proposes(pLastReply', p)
         /\ FileIndex(pRun.repo.files, NormalizePath(p), 1) # 0)
        => pRun'.stage = "applying"
    ]_vars

\* C24: while a handleSend call is in flight isLoading is true, and a
\* handleSend call starts only when none is in flight and isLoading is false:
\* two handleSend calls never overlap.
OneSendInFlight ==
    [](pRun.stage # "none" => pIsLoading)
    /\ [][pSends' # pSends => (pRun.stage = "none" /\ ~pIsLoading)]_vars

OneSendInFlightWitness ==
    /\ pSends = MaxSends
    /\ pRun.stage = "applying"
    /\ pIsLoading
    /\ Len(pMessages) >= 3

\* C25: a write is one step, and it is local: the step of handleApplyChange
\* that changes the repositories gives the file with the card's path in the
\* selected repository the card's modifiedCode, and leaves the number and order
\* of repositories and files, every path, and every other content as they were.
WriteIsLocal ==
    [][repositories' # repositories =>
        \E i \in 1..Len(pMessages) :
            /\ pMessages[i].kind = "card"
            /\ pMessages[i].filePath = pToast'.filePath
            /\ Len(repositories') = Len(repositories)
            /\ \A r \in 1..Len(repositories) :
                /\ repositories'[r].id = repositories[r].id
                /\ Len(repositories'[r].files) = Len(repositories[r].files)
                /\ \A f \in 1..Len(repositories[r].files) :
                    /\ repositories'[r].files[f].path = repositories[r].files[f].path
                    /\ repositories'[r].files[f].content =
                          IF /\ repositories[r].id = pToast'.repoId
                             /\ repositories[r].files[f].path = pToast'.filePath
                          THEN pMessages[i].modifiedCode
                          ELSE repositories[r].files[f].content
    ]_vars

WriteIsLocalWitness ==
    /\ pToast.shown /\ pToast.repoId = "r1" /\ pToast.filePath = PathA
    /\ repositories[1].files[1].content = "c2"
    /\ repositories[1].files[2].content = "c0"
    /\ repositories[2].files[1].content = "c0"

\* C28: whenever handleApplyChange writes the modifiedCode of a card to a file,
\* the content the file holds at that moment is the originalCode the card was
\* computed from.
ApplyOnSnapshot ==
    [][repositories' # repositories =>
        \E i \in 1..Len(pMessages) :
            /\ pMessages[i].kind = "card"
            /\ pMessages[i].filePath = pToast'.filePath
            /\ ReadFile(repositories', pToast'.repoId, pToast'.filePath).content
                  = pMessages[i].modifiedCode
            /\ ReadFile(repositories, pToast'.repoId, pToast'.filePath).content
                  = pMessages[i].originalCode
    ]_vars

-----------------------------------------------------------------------------
(* Properties of the diff.                                                 *)

\* the values of the entries whose tag is not the given one, in order
RECURSIVE ValuesNotTagged(_, _)
ValuesNotTagged(result, tag) ==
    IF result = <<>> THEN <<>>
    ELSE IF result[1].tag = tag THEN ValuesNotTagged(Tail(result), tag)
    ELSE <<result[1].value>> \o ValuesNotTagged(Tail(result), tag)

LinesOf(text) == [i \in 1..Len(Split(text)) |-> DefinedLine(Split(text)[i])]

\* C9 (as claimed): the values of the entries of diffLines(A, B) that are not
\* tagged removed, in order, are the lines of B.
RoundTripToModified ==
    dPc = "done" => ValuesNotTagged(dResult, "removed") = LinesOf(dModified)

\* C10 (as claimed): the values of the entries of diffLines(A, B) that are not
\* tagged added, in order, are the lines of A, each line once.
RoundTripToOriginal ==
    dPc = "done" => ValuesNotTagged(dResult, "added") = LinesOf(dOriginal)

Tagged(result, tag) == {i \in 1..Len(result) : result[i].tag = tag}

\* the entries of one tag, one per line, in the order of the lines
AllTagged(lines, tag) == [i \in 1..Len(lines) |-> Entry(DefinedLine(lines[i]), tag)]

\* C11: the diff of a text with itself is one unchanged entry per line of the
\* text, in order, and nothing else.
DiffIdentity ==
    (dPc = "done" /\ dOriginal = dModified) =>
        dResult = AllTagged(Split(dOriginal), "unchanged")

DiffIdentityWitness ==
    /\ dPc = "done"
    /\ dOriginal = <<"a", LF, "b">>
    /\ dModified = dOriginal
    /\ Len(dResult) = 2
    /\ Tagged(dResult, "unchanged") = {1, 2}

HasEntry(line, tag) ==
    \E i \in 1..Len(dResult) : dResult[i] = Entry(DefinedLine(<<line>>), tag)

\* C12 (as claimed): for the scenario line1/line2/line3 against
\* line1/lineX/line3 the diff has line2 removed, lineX added, and line1 and
\* line3 unchanged.
ScenarioDiff ==
    (dPc = "done" /\ dOriginal = ScenarioOriginal /\ dModified = ScenarioModified) =>
        /\ HasEntry("2", "removed")
        /\ HasEntry("X", "added")
        /\ HasEntry("1", "unchanged")
        /\ HasEntry("3", "unchanged")

Max(a, b) == IF a > b THEN a ELSE b

\* the length of a longest common subsequence of two arrays of lines
RECURSIVE Lcs(_, _)
Lcs(x, y) ==
    IF x = <<>> \/ y = <<>> THEN 0
    ELSE IF Head(x) = Head(y) THEN 1 + Lcs(Tail(x), Tail(y))
    ELSE Max(Lcs(Tail(x), y), Lcs(x, Tail(y)))

\* C13: the number of entries tagged added or removed is the length of a
\* shortest edit script between the two arrays of lines, N + M - 2 * LCS.
DiffMinimal ==
    dPc = "done" =>
        Cardinality(Tagged(dResult, "added") \cup Tagged(dResult, "removed"))
            = Len(Split(dOriginal)) + Len(Split(dModified))
                - 2 * Lcs(Split(dOriginal), Split(dModified))

DiffMinimalWitness ==
    /\ dPc = "done"
    /\ dOriginal = <<"a", LF, "b">>
    /\ dModified = <<"a">>
    /\ Lcs(Split(dOriginal), Split(dModified)) = 1
    /\ Cardinality(Tagged(dResult, "added") \cup Tagged(dResult, "removed")) = 1

\* C14 (as claimed): with an empty original every entry is tagged added.
EmptyOriginalAllAdded ==
    (dPc = "done" /\ dOriginal = <<>>) =>
        \A i \in 1..Len(dResult) : dResult[i].tag = "added"

\* C15 (as claimed): with an empty modified text every entry is tagged removed.
EmptyModifiedAllRemoved ==
    (dPc = "done" /\ dModified = <<>>) =>
        \A i \in 1..Len(dResult) : dResult[i].tag = "removed"

\* C27: diffLines returns from the return inside its loops, its back-tracking
\* cursor ends at (0, 0) (it only ever decreases from (N, M), so it then stayed
\* within 0..N and 0..M), and the value of every entry is a line that exists:
\* a line of the original for an unchanged or removed entry, a line of the
\* modified text for an added one, never undefined.
BackTrackStaysInside ==
    dPc = "done" =>
        LET run == DiffRun(dOriginal, dModified)
        IN  /\ run.inner
            /\ run.px = 0 /\ run.py = 0
            /\ \A i \in 1..Len(dResult) :
                /\ dResult[i].value.defined
                /\ dResult[i].value \in
                      {DefinedLine(l) :
                         l \in {Split(IF dResult[i].tag = "added" THEN dModified
                                      ELSE dOriginal)[j] :
                                  j \in 1..Len(Split(IF dResult[i].tag = "added"
                                                     THEN dModified ELSE dOriginal))}}

-----------------------------------------------------------------------------
(* Properties of the task log.                                             *)

MostRecentFirst(log) == \A i, j \in 1..Len(log) : i < j => log[i].id > log[j].id

\* C16: the task log holds at most TaskCap entries, most recent first; a step
\* that changes it puts one new entry in front of the entries it held, and
\* drops the last (oldest) one exactly when the log was full.
TaskLogCapped ==
    /\ [](Len(tasks) <= TaskCap /\ MostRecentFirst(tasks))
    /\ [][tasks' # tasks =>
            /\ Len(tasks') >= 1
            /\ tasks'[1].id > (IF tasks = <<>> THEN 0 ELSE tasks[1].id)
            /\ Tail(tasks') = IF Len(tasks) = TaskCap
                              THEN SubSeq(tasks, 1, TaskCap - 1)
                              ELSE tasks
       ]_vars

TaskLogCappedWitness ==
    /\ Len(tasks) = TaskCap
    /\ tasks[1].id = TaskCap + 2
    /\ tasks[TaskCap].id = 3
    /\ Len(repositories) = 1

-----------------------------------------------------------------------------
(* Properties of the network calls.                                        *)

ModelOps == {"runAiAgent", "analyzeCode", "applyCodeChanges"}
CallConfigured(call) == ~ConfigFails(call.url, call.model)

\* C17: when the endpoint answers runAiAgent's request with a non-2xx status,
\* the failure runAiAgent surfaces carries the upstream status and the
\* upstream body.
NonOkCarriesStatusAndBody ==
    (/\ nPc = "done"
     /\ nCall.op = "runAiAgent"
     /\ CallConfigured(nCall)
     /\ nCall.up.t = "response"
     /\ ~IsOk(nCall.up.status))
    => /\ nResult.kind = "status"
       /\ nResult.status = nCall.up.status
       /\ nResult.body = nCall.up.body

\* C18: when the upstream answers with the HTML warning page, a caller that goes
\* through the proxy (runAiAgent for generate, testOllamaConnection for tags)
\* receives the "blocked by the tunnel" error, and never a JSON parse failure.
InterstitialIsDistinguished ==
    (/\ nPc = "done"
     /\ \/ nCall.op = "runAiAgent" /\ CallConfigured(nCall)
        \/ nCall.op = "testOllamaConnection" /\ IsHttpUrl(nCall.url)
     /\ nCall.up.body = "html")
    => nResult.kind = "Connection blocked by ngrok"

\* C19: a model invocation (runAiAgent, analyzeCode, applyCodeChanges) made
\* with the endpoint URL or the model unset fails with a configuration error
\* and issues no request.
UnsetConfigFailsBeforeFetch ==
    (/\ nPc = "done"
     /\ nCall.op \in ModelOps
     /\ (nCall.url = "" \/ nCall.model = ""))
    => /\ ~nResult.ok
       /\ nResult.kind = "config"
       /\ nResult.requests = 0

UnsetConfigFailsBeforeFetchWitness ==
    /\ nPc = "done"
    /\ nCall.op = "applyCodeChanges"
    /\ nCall.url # ""
    /\ nCall.model = ""
    /\ nResult.kind = "config"
    /\ nResult.requests = 0

\* C20: a probe reports the timeout exactly when its timer fired while the
\* request was still pending (no upstream answer was received); that result is
\* an error other than the ones for a non-2xx answer and for a network
\* failure, and a probe whose request settled first never reports it.
TimeoutIffTimerFiredFirst ==
    (/\ nPc = "done"
     /\ nCall.op \in ProbeOps
     /\ IsHttpUrl(nCall.url))
    => /\ ~nTimer
       /\ (nCall.up = NoUp) <=>
              (/\ ~nResult.ok
               /\ nResult.kind = "Connection timed out after 10 seconds")
       /\ nCall.up # NoUp => nResult.kind \in
              {"ok", "status", "network", "Connection blocked by ngrok"}

TimeoutIffTimerFiredFirstWitness ==
    /\ nPc = "done"
    /\ nCall.op = "part_003"
    /\ IsHttpUrl(nCall.url)
    /\ nCall.up = NoUp
    /\ nResult.kind = "Connection timed out after 10 seconds"

-----------------------------------------------------------------------------
(* Properties of the training monitor.                                     *)

\* C30: no interval that has observed the end of its job (a final status or a
\* failed status request) is still set, so it issues no further status
\* request; and at most one interval is set at any time.
PollingStopsAtEnd ==
    /\ Cardinality(tTimers) <= 1
    /\ \A t \in tTimers : ~t.sawEnd

=============================================================================
